---- MODULE Spec2Model ----
\* A model of PdfViewerStore (pdfViewerStore.ts): the incremental page-text
\* index, the match computer, the global match registry, navigation and the
\* background scan scheduler, with the viewer and toolbar as its callers.
\*
\* Strings are sequences of one-character strings; offsets are 0-based as in
\* the source, so the character at offset i of text t is t[i + 1].
EXTENDS Integers, Sequences, FiniteSets, TLC

\* ------------------------------------------------------------------ bounds
\* Number of pages of the document the viewer shows.
NumPages == 2

\* ------------------------------------------------------- program constants
PAGE_PROCESSING_BATCH_SIZE == 5

\* longest sequence of text items a page yields in TextSpec and MatchSpec
MaxFrags == 2

\* pages of the document of BatchSpec: more than one batch
\* largest offset of the spans and largest text length handed to
\* findOverlappingMatches besides the stored ones
MaxOffset == 3

\* longest list of match spans handed to findOverlappingMatches besides the
\* stored one
MaxSpans == 2

BatchPages == 6

\* "no value": currentMatchIndex = null, totalDocumentPages = null.
\* No code path stores a negative index or a page count of 0.
NULL == -1

\* ----------------------------------------------------------------- strings
Whitespace == {" "}

MetaChars == {".", "*", "+", "?", "^", "$", "{", "}", "(", ")", "|", "[", "]", "\\"}

Min(a, b) == IF a < b THEN a ELSE b

Max(a, b) == IF a > b THEN a ELSE b

\* s with its first n elements removed
Drop(s, n) == SubSeq(s, n + 1, Len(s))

RECURSIVE TrimStart(_)
TrimStart(s) ==
    IF s # <<>> /\ Head(s) \in Whitespace THEN TrimStart(Tail(s)) ELSE s

RECURSIVE TrimEnd(_)
TrimEnd(s) ==
    IF s # <<>> /\ s[Len(s)] \in Whitespace
    THEN TrimEnd(SubSeq(s, 1, Len(s) - 1)) ELSE s

\* trim() that returns the string as it is
Trim_None(s) == s

\* String.prototype.trim
Trim(s) == TrimEnd(TrimStart(s))

\* number of leading whitespace characters of s
RECURSIVE WsRun(_)
WsRun(s) == IF s # <<>> /\ Head(s) \in Whitespace THEN 1 + WsRun(Tail(s)) ELSE 0

\* number of leading non-whitespace characters of s
RECURSIVE WordRun(_)
WordRun(s) == IF s # <<>> /\ Head(s) \notin Whitespace THEN 1 + WordRun(Tail(s)) ELSE 0

\* term.split(/\s+/): the pieces between maximal whitespace runs, the empty
\* pieces at either end included
RECURSIVE SplitWs(_)
SplitWs(s) ==
    LET w == WordRun(s)
        rest == Drop(s, w)
    IN  IF rest = <<>> THEN <<SubSeq(s, 1, w)>>
        ELSE <<SubSeq(s, 1, w)>> \o SplitWs(Drop(rest, WsRun(rest)))

\* .filter((p) => p.length > 0)
RECURSIVE FilterNonEmpty(_)
FilterNonEmpty(ps) ==
    IF ps = <<>> THEN <<>>
    ELSE IF Len(Head(ps)) > 0 THEN <<Head(ps)>> \o FilterNonEmpty(Tail(ps))
    ELSE FilterNonEmpty(Tail(ps))

\* escapeRegex that returns its argument
escapeRegex_Identity(value) == value

\* value.replace(/[.*+?^${}()|[\]\\]/g, "\\$&")
RECURSIVE escapeRegex(_)
escapeRegex(value) ==
    IF value = <<>> THEN <<>>
    ELSE IF Head(value) \in MetaChars
         THEN <<"\\", Head(value)>> \o escapeRegex(Tail(value))
         ELSE <<Head(value)>> \o escapeRegex(Tail(value))

\* escapedParts.join("\\s+")
RECURSIVE JoinWith(_, _)
JoinWith(ps, sep) ==
    IF ps = <<>> THEN <<>>
    ELSE IF Len(ps) = 1 THEN ps[1]
    ELSE ps[1] \o sep \o JoinWith(Tail(ps), sep)

\* parts.map(escapeRegex)
EscapeAll(ps) == [k \in 1..Len(ps) |-> escapeRegex(ps[k])]

\* the pattern with its parts joined by one literal space
RegexPattern_SingleSpace(term) ==
    JoinWith(EscapeAll(FilterNonEmpty(SplitWs(term))), <<" ">>)

\* the source text of the regular expression built from a trimmed phrase
RegexPattern(term) ==
    JoinWith(EscapeAll(FilterNonEmpty(SplitWs(term))), <<"\\", "s", "+">>)

\* ------------------------------------------------------------------ regex
\* new RegExp(pattern, "gi"): the pattern as a sequence of atoms.
\*   "\s+" is one-or-more whitespace, "\c" is the literal c, an unescaped "."
\*   is any character, every other character is itself.
RECURSIVE Compile(_)
Compile(pat) ==
    IF pat = <<>> THEN <<>>
    ELSE IF Head(pat) = "\\" /\ Len(pat) >= 3 /\ pat[2] = "s" /\ pat[3] = "+"
         THEN <<[kind |-> "ws+", ch |-> " "]>> \o Compile(Drop(pat, 3))
    ELSE IF Head(pat) = "\\" /\ Len(pat) >= 2
         THEN <<[kind |-> "lit", ch |-> pat[2]]>> \o Compile(Drop(pat, 2))
    ELSE IF Head(pat) = "."
         THEN <<[kind |-> "any", ch |-> "."]>> \o Compile(Tail(pat))
    ELSE <<[kind |-> "lit", ch |-> Head(pat)]>> \o Compile(Tail(pat))

\* case folding of the "i" flag
Canonicalize(c) == IF c = "a" THEN "A" ELSE IF c = "b" THEN "B" ELSE c

\* The end offset of the match of atoms k.. at offset i of text, or NULL.
\* A greedy quantifier tries its longest run first and backs off.
RECURSIVE MatchHere(_, _, _, _)
RECURSIVE MatchWs(_, _, _, _, _)
MatchHere(text, i, atoms, k) ==
    IF k > Len(atoms) THEN i
    ELSE LET a == atoms[k] IN
         IF a.kind = "ws+" THEN MatchWs(text, i, atoms, k, WsRun(Drop(text, i)))
         ELSE IF i >= Len(text) THEN NULL
         ELSE IF a.kind = "any" \/ Canonicalize(text[i + 1]) = Canonicalize(a.ch)
              THEN MatchHere(text, i + 1, atoms, k + 1)
         ELSE NULL

MatchWs(text, i, atoms, k, n) ==
    IF n < 1 THEN NULL
    ELSE LET e == MatchHere(text, i + n, atoms, k + 1)
         IN  IF e # NULL THEN e ELSE MatchWs(text, i, atoms, k, n - 1)

\* the exec loop resuming one character after the start of the last match
RECURSIVE ExecAll_Overlapping(_, _, _)
ExecAll_Overlapping(text, atoms, lastIndex) ==
    IF lastIndex > Len(text) THEN <<>>
    ELSE LET e == MatchHere(text, lastIndex, atoms, 1) IN
         IF e = NULL THEN ExecAll_Overlapping(text, atoms, lastIndex + 1)
         ELSE IF e = lastIndex THEN <<>>
         ELSE <<[start |-> lastIndex, end |-> e]>>
                  \o ExecAll_Overlapping(text, atoms, lastIndex + 1)

\* the while ((match = regex.exec(joinedText)) !== null) loop: leftmost match
\* at or after lastIndex, then lastIndex := the end of that match
RECURSIVE ExecAll(_, _, _)
ExecAll(text, atoms, lastIndex) ==
    IF lastIndex > Len(text) THEN <<>>
    ELSE LET e == MatchHere(text, lastIndex, atoms, 1) IN
         IF e = NULL THEN ExecAll(text, atoms, lastIndex + 1)
         ELSE IF e = lastIndex THEN <<>>
         ELSE <<[start |-> lastIndex, end |-> e]>> \o ExecAll(text, atoms, e)

\* the match spans of one page's joined text for a trimmed non-empty phrase
PageRanges(term, joinedText) == ExecAll(joinedText, Compile(RegexPattern(term)), 0)

\* ------------------------------------------------- the document (decoder)
\* The text items the decoder (pdf.js getTextContent, and react-pdf's
\* onGetTextSuccess for the rendered page) yields per page of the document.
\* An item is [has |-> whether it carries a str, str |-> its characters].
Item(s) == [has |-> TRUE, str |-> s]

NoStr == [has |-> FALSE, str |-> <<>>]

PageContents ==
    << <<Item(<<"a", " ", "b">>), Item(<<"A">>)>>,
       <<Item(<<"a">>), Item(<<"b">>)>>,
       <<>>,
       <<Item(<<"b">>), NoStr, Item(<<"a", ".", "b">>)>> >>

DocItems(p) == PageContents[((p - 1) % Len(PageContents)) + 1]

\* the phrases the user types
Phrases == { <<>>, <<" ">>, <<"a">>, <<"a", " ", "b">> }

Pages == 1..NumPages

\* ------------------------------------------------------------------- state
VARIABLES
    fileData,               \* TRUE when the data URL of the document is set
    error,                  \* "null" or a message
    totalDocumentPages,     \* NULL or the page count
    currentPage,
    searchTerm,
    submittedSearchTerm,
    pageMatches,            \* page -> count
    pageTexts,              \* page -> fragments
    pageJoinedTexts,        \* page -> joined string
    pageMatchRanges,        \* page -> match spans
    pageTextItemRanges,     \* page -> fragment spans
    currentMatchIndex,      \* NULL or a global match index
    isProcessingAllPages,
    searchDebounceTimer,    \* the timer handle: "null" or the phrase its callback closes over
    hasProcessedAllPagesForCurrentSearch,
    timers,                 \* the debounce timeouts pending in the event loop
    scans,                  \* the processAllPagesForSearch calls past their guard
    numPages                \* pdfDocument.numPages of the document behind fileData

vars == <<fileData, error, totalDocumentPages, currentPage, searchTerm,
          submittedSearchTerm, pageMatches, pageTexts, pageJoinedTexts,
          pageMatchRanges, pageTextItemRanges, currentMatchIndex,
          isProcessingAllPages, searchDebounceTimer,
          hasProcessedAllPagesForCurrentSearch, timers, scans, numPages>>

docVars == <<fileData, error, totalDocumentPages, numPages>>

textVars == <<pageTexts, pageJoinedTexts, pageTextItemRanges>>

matchVars == <<pageMatches, pageMatchRanges, currentMatchIndex>>

termVars == <<searchTerm, submittedSearchTerm>>

schedVars == <<isProcessingAllPages, searchDebounceTimer,
               hasProcessedAllPagesForCurrentSearch, timers, scans>>

\* ---------------------------------------------------------- fragment joiner
RECURSIVE SumLens(_, _)
SumLens(textArray, n) == IF n = 0 THEN 0 ELSE Len(textArray[n]) + SumLens(textArray, n - 1)

\* the forEach without currentPos += 1 for the separator
ItemRangeOf_NoSeparator(textArray, idx) ==
    LET start == SumLens(textArray, idx - 1)
    IN  [start |-> start, end |-> start + Len(textArray[idx])]

\* the forEach of processTextItems: start of fragment idx (1-based) is the
\* running position after idx - 1 fragments and idx - 1 separators
ItemRangeOf(textArray, idx) ==
    LET start == SumLens(textArray, idx - 1) + (idx - 1)
    IN  [start |-> start, end |-> start + Len(textArray[idx])]

\* processTextItems that leaves out the items without text
processTextItems_DropEmpty(items) ==
    LET all == [k \in 1..Len(items) |-> IF items[k].has THEN items[k].str ELSE <<>>]
        textArray == FilterNonEmpty(all)
    IN  [textArray |-> textArray,
         joinedText |-> JoinWith(textArray, <<" ">>),
         itemRanges |-> [k \in 1..Len(textArray) |-> ItemRangeOf(textArray, k)]]

processTextItems(items) ==
    LET textArray == [k \in 1..Len(items) |-> IF items[k].has THEN items[k].str ELSE <<>>]
    IN  [textArray |-> textArray,
         joinedText |-> JoinWith(textArray, <<" ">>),
         itemRanges |-> [k \in 1..Len(textArray) |-> ItemRangeOf(textArray, k)]]

\* { [pageNumber]: value } without the spread of the table
Put_Only(table, pageNumber, value) == [p \in {pageNumber} |-> value]

\* { ...table, [pageNumber]: value }
Put(table, pageNumber, value) ==
    [p \in (DOMAIN table) \cup {pageNumber} |-> IF p = pageNumber THEN value ELSE table[p]]

Empty == [p \in {} |-> 0]

\* ----------------------------------------------------------- match computer
RECURSIVE SumOver(_, _)
SumOver(f, S) ==
    IF S = {} THEN 0
    ELSE LET p == CHOOSE q \in S : TRUE IN f[p] + SumOver(f, S \ {p})

\* get totalMatches() of a pageMatches table
TotalOf(matches) == SumOver(matches, DOMAIN matches)

totalMatches == TotalOf(pageMatches)

\* ensureCurrentMatchInRange without the out-of-range reset
ensureCurrentMatchInRange_NoClamp(submitted, matches, cur) ==
    IF Trim(submitted) = <<>> \/ TotalOf(matches) = 0 THEN NULL
    ELSE IF cur = NULL THEN 0
    ELSE cur

\* ensureCurrentMatchInRange that always selects the first match
ensureCurrentMatchInRange_First(submitted, matches, cur) ==
    IF Trim(submitted) = <<>> \/ TotalOf(matches) = 0 THEN NULL
    ELSE 0

\* ensureCurrentMatchInRange that moves on to the next match
ensureCurrentMatchInRange_Advance(submitted, matches, cur) ==
    IF Trim(submitted) = <<>> \/ TotalOf(matches) = 0 THEN NULL
    ELSE IF cur = NULL \/ cur < 0 \/ cur >= TotalOf(matches) THEN 0
    ELSE (cur + 1) % TotalOf(matches)

ensureCurrentMatchInRange(submitted, matches, cur) ==
    IF Trim(submitted) = <<>> \/ TotalOf(matches) = 0 THEN NULL
    ELSE IF cur = NULL \/ cur < 0 \/ cur >= TotalOf(matches) THEN 0
    ELSE cur

\* computeMatches: the forEach over Object.entries(pageJoinedTexts)
MatchRangesOf(submitted, joined) ==
    IF Trim(submitted) = <<>> THEN Empty
    ELSE [p \in DOMAIN joined |-> PageRanges(Trim(submitted), joined[p])]

\* recomputeMatches that tests the phrase without trimming it
recomputeMatches_NoTrim(submitted, joined, cur) ==
    IF submitted = <<>>
    THEN [pageMatches |-> Empty, pageMatchRanges |-> Empty, currentMatchIndex |-> NULL]
    ELSE LET term == Trim(submitted)
             newMatchRanges == [p \in DOMAIN joined |->
                                   IF term = <<>> THEN <<>> ELSE PageRanges(term, joined[p])]
             newMatches == [p \in DOMAIN joined |-> Len(newMatchRanges[p])]
         IN  [pageMatches |-> newMatches,
              pageMatchRanges |-> newMatchRanges,
              currentMatchIndex |-> ensureCurrentMatchInRange(submitted, newMatches, cur)]

\* recomputeMatches on the given committed phrase, joined texts and current
\* index: the new pageMatches, pageMatchRanges and currentMatchIndex
recomputeMatches(submitted, joined, cur) ==
    IF Trim(submitted) = <<>>
    THEN [pageMatches |-> Empty, pageMatchRanges |-> Empty, currentMatchIndex |-> NULL]
    ELSE LET newMatchRanges == MatchRangesOf(submitted, joined)
             newMatches == [p \in DOMAIN joined |-> Len(newMatchRanges[p])]
         IN  [pageMatches |-> newMatches,
              pageMatchRanges |-> newMatchRanges,
              currentMatchIndex |-> ensureCurrentMatchInRange(submitted, newMatches, cur)]

\* ------------------------------------------------------ global match registry
\* this.pageMatches[page] || 0
MatchesOnPage(page) == IF page \in DOMAIN pageMatches THEN pageMatches[page] ELSE 0

\* the page walk with <= in place of <
RECURSIVE PageWalk_LE(_, _, _)
PageWalk_LE(matchIndex, page, cumulativeMatches) ==
    IF page > totalDocumentPages THEN NULL
    ELSE IF matchIndex <= cumulativeMatches + MatchesOnPage(page) THEN page
    ELSE PageWalk_LE(matchIndex, page + 1, cumulativeMatches + MatchesOnPage(page))

RECURSIVE PageWalk(_, _, _)
PageWalk(matchIndex, page, cumulativeMatches) ==
    IF page > totalDocumentPages THEN NULL
    ELSE IF matchIndex < cumulativeMatches + MatchesOnPage(page) THEN page
    ELSE PageWalk(matchIndex, page + 1, cumulativeMatches + MatchesOnPage(page))

getPageForMatchIndex(matchIndex) ==
    IF matchIndex < 0 \/ totalDocumentPages = NULL THEN NULL
    ELSE PageWalk(matchIndex, 1, 0)

\* the loop of getMatchCountBeforePage with p <= pageNumber
RECURSIVE getMatchCountBeforePage_Inclusive(_)
getMatchCountBeforePage_Inclusive(pageNumber) ==
    IF pageNumber < 1 THEN 0
    ELSE getMatchCountBeforePage_Inclusive(pageNumber - 1) + MatchesOnPage(pageNumber)

RECURSIVE getMatchCountBeforePage(_)
getMatchCountBeforePage(pageNumber) ==
    IF pageNumber <= 1 THEN 0
    ELSE getMatchCountBeforePage(pageNumber - 1) + MatchesOnPage(pageNumber - 1)

\* ---------------------------------------------------------- overlap resolver
\* the forEach that pushes an entry for every match with overlapStart <= overlapEnd
RECURSIVE OverlapEntries_NonStrict(_, _, _, _, _)
OverlapEntries_NonStrict(matchCounter, matchRanges, currentItemRange, strLength, idx) ==
    IF idx >= Len(matchRanges) THEN <<>>
    ELSE LET matchRange == matchRanges[idx + 1]
             overlapStart == Max(matchRange.start, currentItemRange.start)
             overlapEnd == Min(matchRange.end, currentItemRange.end)
             rest == OverlapEntries_NonStrict(matchCounter, matchRanges, currentItemRange,
                                              strLength, idx + 1)
         IN  IF overlapStart <= overlapEnd
             THEN <<[matchStart |-> matchRange.start,
                     matchEnd |-> matchRange.end,
                     localStart |-> Max(0, matchRange.start - currentItemRange.start),
                     localEnd |-> Min(strLength, matchRange.end - currentItemRange.start),
                     globalIndex |-> matchCounter + idx]>> \o rest
             ELSE rest

\* the forEach with localEnd left at matchRange.end - currentItemRange.start
RECURSIVE OverlapEntries_NoClamp(_, _, _, _, _)
OverlapEntries_NoClamp(matchCounter, matchRanges, currentItemRange, strLength, idx) ==
    IF idx >= Len(matchRanges) THEN <<>>
    ELSE LET matchRange == matchRanges[idx + 1]
             overlapStart == Max(matchRange.start, currentItemRange.start)
             overlapEnd == Min(matchRange.end, currentItemRange.end)
             rest == OverlapEntries_NoClamp(matchCounter, matchRanges, currentItemRange,
                                            strLength, idx + 1)
         IN  IF overlapStart < overlapEnd
             THEN <<[matchStart |-> matchRange.start,
                     matchEnd |-> matchRange.end,
                     localStart |-> Max(0, matchRange.start - currentItemRange.start),
                     localEnd |-> matchRange.end - currentItemRange.start,
                     globalIndex |-> matchCounter + idx]>> \o rest
             ELSE rest

\* matchRanges.forEach((matchRange, idx) => ...) from the 0-based idx on: the
\* entries pushed, in the order of the matches
RECURSIVE OverlapEntries(_, _, _, _, _)
OverlapEntries(matchCounter, matchRanges, currentItemRange, strLength, idx) ==
    IF idx >= Len(matchRanges) THEN <<>>
    ELSE LET matchRange == matchRanges[idx + 1]
             overlapStart == Max(matchRange.start, currentItemRange.start)
             overlapEnd == Min(matchRange.end, currentItemRange.end)
             rest == OverlapEntries(matchCounter, matchRanges, currentItemRange,
                                    strLength, idx + 1)
         IN  IF overlapStart < overlapEnd
             THEN <<[matchStart |-> matchRange.start,
                     matchEnd |-> matchRange.end,
                     localStart |-> Max(0, matchRange.start - currentItemRange.start),
                     localEnd |-> Min(strLength, matchRange.end - currentItemRange.start),
                     globalIndex |-> matchCounter + idx]>> \o rest
             ELSE rest

\* Array.prototype.sort with (a, b) => a.localStart - b.localStart: stable
RECURSIVE InsertByLocalStart(_, _)
InsertByLocalStart(sorted, entry) ==
    IF sorted = <<>> THEN <<entry>>
    ELSE IF Head(sorted).localStart <= entry.localStart
         THEN <<Head(sorted)>> \o InsertByLocalStart(Tail(sorted), entry)
    ELSE <<entry>> \o sorted

RECURSIVE SortByLocalStart(_)
SortByLocalStart(entries) ==
    IF entries = <<>> THEN <<>>
    ELSE InsertByLocalStart(SortByLocalStart(SubSeq(entries, 1, Len(entries) - 1)),
                            entries[Len(entries)])

findOverlappingMatches(pageNumber, matchRanges, currentItemRange, strLength) ==
    SortByLocalStart(OverlapEntries(getMatchCountBeforePage(pageNumber), matchRanges,
                                    currentItemRange, strLength, 0))

\* ------------------------------------------------------------ initial state
NoTimer == [set |-> FALSE, value |-> <<>>]

\* the field initialisers of the store
Constructed ==
    /\ fileData = FALSE
    /\ error = "null"
    /\ totalDocumentPages = NULL
    /\ currentPage = 1
    /\ searchTerm = <<>>
    /\ submittedSearchTerm = <<>>
    /\ pageMatches = Empty
    /\ pageTexts = Empty
    /\ pageJoinedTexts = Empty
    /\ pageMatchRanges = Empty
    /\ pageTextItemRanges = Empty
    /\ currentMatchIndex = NULL
    /\ isProcessingAllPages = FALSE
    /\ searchDebounceTimer = NoTimer
    /\ hasProcessedAllPagesForCurrentSearch = FALSE
    /\ timers = {}
    /\ scans = <<>>

\* a fresh store in a viewer that is given the NumPages-page document
Init == Constructed /\ numPages = NumPages

\* ------------------------------------------------- document load (viewer)
\* fetchPdf, reader.onloadend with a string result
FetchPdfOk ==
    /\ fileData' = TRUE
    /\ error' = "null"
    /\ UNCHANGED <<totalDocumentPages, numPages, currentPage, termVars, textVars, matchVars, schedVars>>

\* fetchPdf, the download or the read failed
FetchPdfFail ==
    /\ error' = "message"
    /\ UNCHANGED <<fileData, totalDocumentPages, numPages, currentPage, termVars, textVars, matchVars, schedVars>>

\* resetSearchState without setPageMatchRanges({})
handleDocumentLoadSuccess_KeepRanges ==
    /\ fileData
    /\ totalDocumentPages' = numPages
    /\ pageMatches' = Empty
    /\ pageTexts' = Empty
    /\ pageJoinedTexts' = Empty
    /\ pageTextItemRanges' = Empty
    /\ currentMatchIndex' = NULL
    /\ UNCHANGED <<fileData, error, numPages, currentPage, termVars, schedVars, pageMatchRanges>>

\* react-pdf's onLoadSuccess for the document in fileData, also when the
\* Document component mounts again: setTotalDocumentPages, resetSearchState
handleDocumentLoadSuccess ==
    /\ fileData
    /\ totalDocumentPages' = numPages
    /\ pageMatches' = Empty
    /\ pageTexts' = Empty
    /\ pageJoinedTexts' = Empty
    /\ pageMatchRanges' = Empty
    /\ pageTextItemRanges' = Empty
    /\ currentMatchIndex' = NULL
    /\ UNCHANGED <<fileData, error, numPages, currentPage, termVars, schedVars>>

handleDocumentLoadError ==
    /\ fileData
    /\ error' = "message"
    /\ UNCHANGED <<fileData, totalDocumentPages, numPages, currentPage, termVars, textVars, matchVars, schedVars>>

\* the toolbar's page buttons and page select
setCurrentPage(page) ==
    /\ totalDocumentPages # NULL
    /\ page \in 1..totalDocumentPages
    /\ currentPage' = page
    /\ UNCHANGED <<docVars, termVars, textVars, matchVars, schedVars>>

\* ------------------------------------------------------- page text index
\* updatePageTextData: the three tables after storing processed text
StoredTexts(pageNumber, processed) == Put(pageTexts, pageNumber, processed.textArray)

\* setPageJoinedTexts with the page's entry alone, the other pages dropped
StoredJoined_DropOthers(pageNumber, processed) ==
    [p \in {pageNumber} |-> processed.joinedText]

StoredJoined(pageNumber, processed) == Put(pageJoinedTexts, pageNumber, processed.joinedText)

StoredRanges(pageNumber, processed) == Put(pageTextItemRanges, pageNumber, processed.itemRanges)

\* onGetTextSuccess of the rendered page (currentPage) of the loaded document;
\* isArray is FALSE for a payload that carries no item array
handlePageTextSuccess(pageNumber, items, isArray) ==
    /\ totalDocumentPages # NULL
    /\ pageNumber = currentPage
    /\ pageNumber <= totalDocumentPages
    /\ IF ~isArray
       THEN UNCHANGED <<textVars, matchVars>>
       ELSE LET processed == processTextItems(items)
                rec == recomputeMatches(submittedSearchTerm,
                                        StoredJoined(pageNumber, processed),
                                        currentMatchIndex)
            IN  /\ pageTexts' = StoredTexts(pageNumber, processed)
                /\ pageJoinedTexts' = StoredJoined(pageNumber, processed)
                /\ pageTextItemRanges' = StoredRanges(pageNumber, processed)
                /\ IF ~isProcessingAllPages
                   THEN /\ pageMatches' = rec.pageMatches
                        /\ pageMatchRanges' = rec.pageMatchRanges
                        /\ currentMatchIndex' = rec.currentMatchIndex
                   ELSE UNCHANGED matchVars
    /\ UNCHANGED <<docVars, currentPage, termVars, schedVars>>

\* ------------------------------------------------------------- scheduler
canProcessPages(submitted) ==
    fileData /\ totalDocumentPages # NULL /\ Trim(submitted) # <<>>

\* a processAllPagesForSearch call past its guard, awaiting loadPdfDocument;
\* setsFlag: the caller sets hasProcessedAllPagesForCurrentSearch when the
\* call resolves
NewScan(setsFlag) ==
    [phase |-> "loading", queue |-> <<>>, settled |-> {}, i |-> 0,
     failed |-> FALSE, setsFlag |-> setsFlag]

\* the call of processAllPagesForSearch by a caller that has committed the
\* phrase submitted and left the flag at flagBefore; a call that returns at
\* its guard resolves at once and the caller's continuation runs
processAllPagesForSearch(submitted, setsFlag, flagBefore) ==
    IF canProcessPages(submitted)
    THEN /\ isProcessingAllPages' = TRUE
         /\ scans' = Append(scans, NewScan(setsFlag))
         /\ hasProcessedAllPagesForCurrentSearch' = flagBefore
    ELSE /\ isProcessingAllPages' = isProcessingAllPages
         /\ scans' = scans
         /\ hasProcessedAllPagesForCurrentSearch' = (setsFlag \/ flagBefore)

\* clearSearchDebounce: the pending timeouts after clearTimeout of the handle
\* clearSearchDebounce that leaves the pending timeout armed
TimersCleared_NoClear == timers

TimersCleared ==
    IF searchDebounceTimer.set THEN timers \ {searchDebounceTimer.value} ELSE timers

\* scheduleBackgroundProcessing that always takes the setTimeout branch
scheduleBackgroundProcessing_AlwaysDebounce(value, flagBefore) ==
    /\ searchDebounceTimer' = [set |-> TRUE, value |-> value]
    /\ timers' = TimersCleared \cup {value}
    /\ hasProcessedAllPagesForCurrentSearch' = flagBefore
    /\ UNCHANGED <<isProcessingAllPages, scans>>

\* scheduleBackgroundProcessing(value), after clearSearchDebounce
scheduleBackgroundProcessing(value, flagBefore) ==
    IF ~flagBefore /\ ~isProcessingAllPages
    THEN /\ processAllPagesForSearch(value, TRUE, flagBefore)
         /\ searchDebounceTimer' = NoTimer
         /\ timers' = TimersCleared
    ELSE /\ searchDebounceTimer' = [set |-> TRUE, value |-> value]
         /\ timers' = TimersCleared \cup {value}
         /\ hasProcessedAllPagesForCurrentSearch' = flagBefore
         /\ UNCHANGED <<isProcessingAllPages, scans>>

\* setSearchTerm that leaves the recompute to the scan while one is running
setSearchTerm_DeferToScan(value) ==
    LET searchTermChanged == searchTerm # value
        flagBefore == IF searchTermChanged THEN FALSE
                      ELSE hasProcessedAllPagesForCurrentSearch
        rec == recomputeMatches(value, pageJoinedTexts, currentMatchIndex)
    IN  /\ searchTerm' = value
        /\ submittedSearchTerm' = value
        /\ IF isProcessingAllPages
           THEN UNCHANGED matchVars
           ELSE /\ pageMatches' = rec.pageMatches
                /\ pageMatchRanges' = rec.pageMatchRanges
                /\ currentMatchIndex' = rec.currentMatchIndex
        /\ IF Trim(value) # <<>>
           THEN scheduleBackgroundProcessing(value, flagBefore)
           ELSE /\ searchDebounceTimer' = NoTimer
                /\ timers' = TimersCleared
                /\ hasProcessedAllPagesForCurrentSearch' = FALSE
                /\ UNCHANGED <<isProcessingAllPages, scans>>
        /\ UNCHANGED <<docVars, currentPage, textVars>>

setSearchTerm(value) ==
    LET searchTermChanged == searchTerm # value
        flagBefore == IF searchTermChanged THEN FALSE
                      ELSE hasProcessedAllPagesForCurrentSearch
        rec == recomputeMatches(value, pageJoinedTexts, currentMatchIndex)
    IN  /\ searchTerm' = value
        /\ submittedSearchTerm' = value
        /\ pageMatches' = rec.pageMatches
        /\ pageMatchRanges' = rec.pageMatchRanges
        /\ currentMatchIndex' = rec.currentMatchIndex
        /\ IF Trim(value) # <<>>
           THEN scheduleBackgroundProcessing(value, flagBefore)
           ELSE /\ searchDebounceTimer' = NoTimer
                /\ timers' = TimersCleared
                /\ hasProcessedAllPagesForCurrentSearch' = FALSE
                /\ UNCHANGED <<isProcessingAllPages, scans>>
        /\ UNCHANGED <<docVars, currentPage, textVars>>

\* the timeout callback without its !this.isProcessingAllPages test
debounceFire_NoGuard(value) ==
    /\ value \in timers
    /\ timers' = timers \ {value}
    /\ IF searchTerm = value /\ Trim(value) # <<>>
       THEN processAllPagesForSearch(submittedSearchTerm, TRUE,
                                     hasProcessedAllPagesForCurrentSearch)
       ELSE UNCHANGED <<isProcessingAllPages, scans, hasProcessedAllPagesForCurrentSearch>>
    /\ UNCHANGED <<docVars, currentPage, termVars, textVars, matchVars, searchDebounceTimer>>

\* the callback of the timeout armed by scheduleBackgroundProcessing(value)
debounceFire(value) ==
    /\ value \in timers
    /\ timers' = timers \ {value}
    /\ IF searchTerm = value /\ Trim(value) # <<>> /\ ~isProcessingAllPages
       THEN processAllPagesForSearch(submittedSearchTerm, TRUE,
                                     hasProcessedAllPagesForCurrentSearch)
       ELSE UNCHANGED <<isProcessingAllPages, scans, hasProcessedAllPagesForCurrentSearch>>
    /\ UNCHANGED <<docVars, currentPage, termVars, textVars, matchVars, searchDebounceTimer>>

\* submitSearch that skips the scan when one has completed for the phrase
submitSearch_RespectsFlag ==
    LET rec == recomputeMatches(searchTerm, pageJoinedTexts, currentMatchIndex)
    IN  /\ searchDebounceTimer' = NoTimer
        /\ timers' = TimersCleared
        /\ submittedSearchTerm' = searchTerm
        /\ pageMatches' = rec.pageMatches
        /\ pageMatchRanges' = rec.pageMatchRanges
        /\ currentMatchIndex' = rec.currentMatchIndex
        /\ IF Trim(searchTerm) # <<>> /\ ~isProcessingAllPages
              /\ ~hasProcessedAllPagesForCurrentSearch
           THEN processAllPagesForSearch(searchTerm, FALSE,
                                         hasProcessedAllPagesForCurrentSearch)
           ELSE UNCHANGED <<isProcessingAllPages, scans, hasProcessedAllPagesForCurrentSearch>>
        /\ UNCHANGED <<docVars, currentPage, searchTerm, textVars>>

submitSearch ==
    LET rec == recomputeMatches(searchTerm, pageJoinedTexts, currentMatchIndex)
    IN  /\ searchDebounceTimer' = NoTimer
        /\ timers' = TimersCleared
        /\ submittedSearchTerm' = searchTerm
        /\ pageMatches' = rec.pageMatches
        /\ pageMatchRanges' = rec.pageMatchRanges
        /\ currentMatchIndex' = rec.currentMatchIndex
        /\ IF Trim(searchTerm) # <<>> /\ ~isProcessingAllPages
           THEN processAllPagesForSearch(searchTerm, FALSE,
                                         hasProcessedAllPagesForCurrentSearch)
           ELSE UNCHANGED <<isProcessingAllPages, scans, hasProcessedAllPagesForCurrentSearch>>
        /\ UNCHANGED <<docVars, currentPage, searchTerm, textVars>>

\* clearSearch that also abandons the running scan
clearSearch_CancelsScan ==
    /\ searchTerm' = <<>>
    /\ submittedSearchTerm' = <<>>
    /\ pageMatches' = Empty
    /\ pageMatchRanges' = Empty
    /\ currentMatchIndex' = NULL
    /\ searchDebounceTimer' = NoTimer
    /\ timers' = TimersCleared
    /\ hasProcessedAllPagesForCurrentSearch' = FALSE
    /\ isProcessingAllPages' = FALSE
    /\ scans' = <<>>
    /\ UNCHANGED <<docVars, currentPage, textVars>>

\* clearSearch that leaves the debounce timer alone
clearSearch_KeepsTimer ==
    /\ searchTerm' = <<>>
    /\ submittedSearchTerm' = <<>>
    /\ pageMatches' = Empty
    /\ pageMatchRanges' = Empty
    /\ currentMatchIndex' = NULL
    /\ hasProcessedAllPagesForCurrentSearch' = FALSE
    /\ UNCHANGED <<docVars, currentPage, textVars, isProcessingAllPages, scans,
                   searchDebounceTimer, timers>>

\* setSearchTerm(""), then the explicit resets
clearSearch ==
    /\ searchTerm' = <<>>
    /\ submittedSearchTerm' = <<>>
    /\ pageMatches' = Empty
    /\ pageMatchRanges' = Empty
    /\ currentMatchIndex' = NULL
    /\ searchDebounceTimer' = NoTimer
    /\ timers' = TimersCleared
    /\ hasProcessedAllPagesForCurrentSearch' = FALSE
    /\ UNCHANGED <<docVars, currentPage, textVars, isProcessingAllPages, scans>>

\* ------------------------------------------------------- background scan
\* if (this.pageJoinedTexts[pageNum]) continue: an absent entry and an empty
\* joined string are both falsy
HasText(joined, pageNum) == pageNum \in DOMAIN joined /\ joined[pageNum] # <<>>

\* createPageProcessingPromises: the pages a decode is started for, ascending
RECURSIVE PagesToProcess(_, _, _)
PagesToProcess(joined, pageNum, totalPages) ==
    IF pageNum > totalPages THEN <<>>
    ELSE IF HasText(joined, pageNum) THEN PagesToProcess(joined, pageNum + 1, totalPages)
    ELSE <<pageNum>> \o PagesToProcess(joined, pageNum + 1, totalPages)

\* processPagesInBatches: the loop position after the awaits that can
\* complete, given the settled decodes
RECURSIVE processPagesInBatches(_, _, _)
processPagesInBatches(queue, settled, i) ==
    IF i >= Len(queue) THEN i
    ELSE IF \A k \in (i + 1)..Min(i + PAGE_PROCESSING_BATCH_SIZE, Len(queue)) : queue[k] \in settled
         THEN processPagesInBatches(queue, settled, i + PAGE_PROCESSING_BATCH_SIZE)
    ELSE i

RemoveAt(seq, k) == SubSeq(seq, 1, k - 1) \o SubSeq(seq, k + 1, Len(seq))

\* the decodes of scan s that have been started and have not settled
InFlight(s) == {s.queue[k] : k \in 1..Len(s.queue)} \ s.settled

\* the rest of processAllPagesForSearch once scan k has the state s and the
\* joined texts are joined: either it still awaits a batch, or it runs the
\* final recomputeMatches, the finally block and the caller's continuation
ScanContinue(k, s, joined) ==
    LET i == processPagesInBatches(s.queue, s.settled, s.i)
        rec == recomputeMatches(submittedSearchTerm, joined, currentMatchIndex)
    IN  IF i < Len(s.queue)
        THEN /\ scans' = [scans EXCEPT ![k] = [s EXCEPT !.i = i]]
             /\ UNCHANGED <<matchVars, isProcessingAllPages, hasProcessedAllPagesForCurrentSearch>>
        ELSE /\ scans' = RemoveAt(scans, k)
             /\ pageMatches' = rec.pageMatches
             /\ pageMatchRanges' = rec.pageMatchRanges
             /\ currentMatchIndex' = rec.currentMatchIndex
             /\ isProcessingAllPages' = FALSE
             /\ hasProcessedAllPagesForCurrentSearch' =
                    (s.setsFlag \/ hasProcessedAllPagesForCurrentSearch)

\* loadPdfDocument resolves: every decode of the scan is started
loadPdfDocumentOk(k) ==
    /\ k \in 1..Len(scans)
    /\ scans[k].phase = "loading"
    /\ ScanContinue(k, [scans[k] EXCEPT !.phase = "decoding",
                                        !.queue = PagesToProcess(pageJoinedTexts, 1, numPages)],
                    pageJoinedTexts)
    /\ UNCHANGED <<docVars, currentPage, termVars, textVars, searchDebounceTimer, timers>>

\* loadPdfDocument rejects and there is no finally block: the scan is gone
\* and isProcessingAllPages stays set
loadPdfDocumentFail_NoFinally(k) ==
    /\ k \in 1..Len(scans)
    /\ scans[k].phase = "loading"
    /\ scans' = RemoveAt(scans, k)
    /\ hasProcessedAllPagesForCurrentSearch' =
           (scans[k].setsFlag \/ hasProcessedAllPagesForCurrentSearch)
    /\ UNCHANGED <<docVars, currentPage, termVars, textVars, matchVars, searchDebounceTimer, timers, isProcessingAllPages>>

\* loadPdfDocument rejects: catch, finally, the caller's continuation
loadPdfDocumentFail(k) ==
    /\ k \in 1..Len(scans)
    /\ scans[k].phase = "loading"
    /\ scans' = RemoveAt(scans, k)
    /\ isProcessingAllPages' = FALSE
    /\ hasProcessedAllPagesForCurrentSearch' =
           (scans[k].setsFlag \/ hasProcessedAllPagesForCurrentSearch)
    /\ UNCHANGED <<docVars, currentPage, termVars, textVars, matchVars, searchDebounceTimer, timers>>

\* processSinglePage(pageNum) gets its text content and stores it
processSinglePageOk(k, pageNum) ==
    /\ k \in 1..Len(scans)
    /\ scans[k].phase = "decoding"
    /\ pageNum \in InFlight(scans[k])
    /\ LET processed == processTextItems(DocItems(pageNum))
       IN  /\ pageTexts' = StoredTexts(pageNum, processed)
           /\ pageJoinedTexts' = StoredJoined(pageNum, processed)
           /\ pageTextItemRanges' = StoredRanges(pageNum, processed)
           /\ ScanContinue(k, [scans[k] EXCEPT !.settled = @ \cup {pageNum}],
                           StoredJoined(pageNum, processed))
    /\ UNCHANGED <<docVars, currentPage, termVars, searchDebounceTimer, timers>>

\* processSinglePage without its try/catch: the rejection reaches the catch of
\* processAllPagesForSearch, which skips the recompute and ends the scan
processSinglePageFail_Throws(k, pageNum) ==
    /\ k \in 1..Len(scans)
    /\ scans[k].phase = "decoding"
    /\ pageNum \in InFlight(scans[k])
    /\ scans' = RemoveAt(scans, k)
    /\ isProcessingAllPages' = FALSE
    /\ hasProcessedAllPagesForCurrentSearch' =
           (scans[k].setsFlag \/ hasProcessedAllPagesForCurrentSearch)
    /\ UNCHANGED <<docVars, currentPage, termVars, textVars, matchVars, searchDebounceTimer, timers>>

\* processSinglePage(pageNum) fails (getPage or getTextContent throws, or the
\* items are not an array): nothing is stored
processSinglePageFail(k, pageNum) ==
    /\ k \in 1..Len(scans)
    /\ scans[k].phase = "decoding"
    /\ pageNum \in InFlight(scans[k])
    /\ ScanContinue(k, [scans[k] EXCEPT !.settled = @ \cup {pageNum}, !.failed = TRUE],
                    pageJoinedTexts)
    /\ UNCHANGED <<docVars, currentPage, termVars, textVars, searchDebounceTimer, timers>>

\* -------------------------------------------------------------- navigation
\* nextMatch without the wrap
NextIndex_NoWrap == IF currentMatchIndex = NULL THEN 0 ELSE currentMatchIndex + 1

\* the index nextMatch moves to
NextIndex == IF currentMatchIndex = NULL THEN 0 ELSE (currentMatchIndex + 1) % totalMatches

\* prevMatch that stops at the first match instead of wrapping
PrevIndex_NoWrap ==
    IF currentMatchIndex = NULL THEN totalMatches - 1
    ELSE Max(currentMatchIndex - 1, 0)

\* the index prevMatch moves to
PrevIndex ==
    IF currentMatchIndex = NULL THEN totalMatches - 1
    ELSE (currentMatchIndex - 1 + totalMatches) % totalMatches

\* a move that leaves the viewer on the page it shows
PageAfterMove_Keep(index) == currentPage

\* if (page) / if (page && page !== this.currentPage) this.setCurrentPage(page)
PageAfterMove(index) ==
    IF getPageForMatchIndex(index) # NULL THEN getPageForMatchIndex(index) ELSE currentPage

nextMatch ==
    /\ IF totalMatches = 0
       THEN UNCHANGED <<currentMatchIndex, currentPage>>
       ELSE /\ currentMatchIndex' = NextIndex
            /\ currentPage' = PageAfterMove(NextIndex)
    /\ UNCHANGED <<docVars, termVars, textVars, pageMatches, pageMatchRanges, schedVars>>

prevMatch ==
    /\ IF totalMatches = 0
       THEN UNCHANGED <<currentMatchIndex, currentPage>>
       ELSE /\ currentMatchIndex' = PrevIndex
            /\ currentPage' = PageAfterMove(PrevIndex)
    /\ UNCHANGED <<docVars, termVars, textVars, pageMatches, pageMatchRanges, schedVars>>

\* ------------------------------------------------------------ specification
Next ==
    \/ FetchPdfOk
    \/ FetchPdfFail
    \/ handleDocumentLoadSuccess
    \/ handleDocumentLoadError
    \/ \E page \in Pages : setCurrentPage(page)
    \/ \E isArray \in BOOLEAN : handlePageTextSuccess(currentPage, DocItems(currentPage), isArray)
    \/ \E value \in Phrases : setSearchTerm(value)
    \/ \E value \in Phrases : debounceFire(value)
    \/ submitSearch
    \/ clearSearch
    \/ \E k \in 1..Len(scans) : loadPdfDocumentOk(k)
    \/ \E k \in 1..Len(scans) : loadPdfDocumentFail(k)
    \/ \E k \in 1..Len(scans), pageNum \in Pages : processSinglePageOk(k, pageNum)
    \/ \E k \in 1..Len(scans), pageNum \in Pages : processSinglePageFail(k, pageNum)
    \/ nextMatch
    \/ prevMatch

Spec == Init /\ [][Next]_vars

\* the document load of a scan settles, and a decode in flight settles
LoadSettles == \E k \in 1..Len(scans) : loadPdfDocumentOk(k) \/ loadPdfDocumentFail(k)

DecodeSettles ==
    \E k \in 1..Len(scans), pageNum \in Pages :
        processSinglePageOk(k, pageNum) \/ processSinglePageFail(k, pageNum)

\* a scan awaits loadPdfDocument: LoadSettles is enabled
LoadPending == \E k \in 1..Len(scans) : scans[k].phase = "loading"

\* a scan has a decode in flight: DecodeSettles is enabled
DecodePending ==
    \E k \in 1..Len(scans) : scans[k].phase = "decoding" /\ InFlight(scans[k]) # {}

\* Spec with the promises of pdf.js settling: a document load and a page
\* decode are not left pending forever. This is weak fairness of LoadSettles
\* and of DecodeSettles, with ENABLED written out as LoadPending and
\* DecodePending
FairSpec ==
    /\ Spec
    /\ ([]<>(~LoadPending) \/ []<><<LoadSettles>>_vars)
    /\ ([]<>(~DecodePending) \/ []<><<DecodeSettles>>_vars)

\* the document is loaded and no scan is running
ReadyToScan == fileData /\ totalDocumentPages # NULL /\ ~isProcessingAllPages

\* ------------------------------------------------ typing after the load
\* the document loads once before the user types, the user edits the phrase
\* only while no scan runs, and loadPdfDocument does not reject: every scan
\* request passes the guard, every scan runs to its final recompute, and
\* hasProcessedAllPagesForCurrentSearch is set only by a scan that completed
\* for the committed phrase
EditNext ==
    \/ ~fileData /\ FetchPdfOk
    \/ totalDocumentPages = NULL /\ handleDocumentLoadSuccess
    \/ handlePageTextSuccess(currentPage, DocItems(currentPage), TRUE)
    \/ ReadyToScan /\ \E value \in Phrases : setSearchTerm(value)
    \/ \E value \in Phrases : debounceFire(value)
    \/ ReadyToScan /\ submitSearch
    \/ \E k \in 1..Len(scans) : loadPdfDocumentOk(k)
    \/ \E k \in 1..Len(scans), pageNum \in Pages : processSinglePageOk(k, pageNum)
    \/ \E k \in 1..Len(scans), pageNum \in Pages : processSinglePageFail(k, pageNum)

EditSpec == Init /\ [][EditNext]_vars

\* ------------------------------------------- the viewer's pages, any text
\* the text items a rendered page may carry
TextItems == {Item(<<>>), Item(<<"a">>), Item(<<"a", " ", "b">>), NoStr}

ItemSeqs == UNION {[1..n -> TextItems] : n \in 0..MaxFrags}

\* the document loads once and the viewer renders its pages in any order,
\* each time with any sequence of text items; no phrase is typed
TextNext ==
    \/ ~fileData /\ FetchPdfOk
    \/ totalDocumentPages = NULL /\ handleDocumentLoadSuccess
    \/ \E page \in Pages : setCurrentPage(page)
    \/ \E items \in ItemSeqs : handlePageTextSuccess(currentPage, items, TRUE)

TextSpec == Init /\ [][TextNext]_vars

\* ------------------------------------------- one page, any text and phrase
\* the text items the rendered page may carry
MatchItems ==
    {Item(<<"a">>), Item(<<"A", " ", "a">>), Item(<<"a", ".", "b">>),
     Item(<<"a", "x", "b">>), Item(<<"[">>)}

MatchItemSeqs == UNION {[1..n -> MatchItems] : n \in 0..MaxFrags}

\* the phrases the user types, metacharacters and unbalanced brackets included
MatchPhrases ==
    { <<>>, <<" ">>, <<"a">>, <<"a", ".", "b">>, <<"a", " ", "a">>, <<"[">>, <<".", "*">> }

\* a fresh store in a viewer that is given a one-page document
MatchInit == Constructed /\ numPages = 1

\* the document loads once, its page renders with any sequence of text items,
\* the user types phrases, and the scans and timers this starts run;
\* loadPdfDocument does not reject
MatchNext ==
    \/ ~fileData /\ FetchPdfOk
    \/ totalDocumentPages = NULL /\ handleDocumentLoadSuccess
    \/ \E items \in MatchItemSeqs : handlePageTextSuccess(currentPage, items, TRUE)
    \/ \E value \in MatchPhrases : setSearchTerm(value)
    \/ \E value \in MatchPhrases : debounceFire(value)
    \/ \E k \in 1..Len(scans) : loadPdfDocumentOk(k)
    \/ \E k \in 1..Len(scans), pageNum \in 1..numPages : processSinglePageOk(k, pageNum)
    \/ \E k \in 1..Len(scans), pageNum \in 1..numPages : processSinglePageFail(k, pageNum)

MatchSpec == MatchInit /\ [][MatchNext]_vars

\* ------------------------------------------- one page, multi-word phrases
Hello == <<"h", "e", "l", "l", "o">>

World == <<"w", "o", "r", "l", "d">>

\* the text items of the page: single words, and one item with two spaces
\* between its words
PhraseItems == {Item(Hello), Item(World), Item(Hello \o <<" ", " ">> \o World)}

PhraseItemSeqs == UNION {[1..n -> PhraseItems] : n \in 0..MaxFrags}

PhrasePhrases ==
    { <<>>, World, Hello \o <<" ">> \o World, Hello \o <<" ", " ">> \o World }

\* as MatchNext, with the words above as text items and phrases
PhraseNext ==
    \/ ~fileData /\ FetchPdfOk
    \/ totalDocumentPages = NULL /\ handleDocumentLoadSuccess
    \/ \E items \in PhraseItemSeqs : handlePageTextSuccess(currentPage, items, TRUE)
    \/ \E value \in PhrasePhrases : setSearchTerm(value)
    \/ \E value \in PhrasePhrases : debounceFire(value)
    \/ \E k \in 1..Len(scans) : loadPdfDocumentOk(k)
    \/ \E k \in 1..Len(scans), pageNum \in 1..numPages : processSinglePageOk(k, pageNum)
    \/ \E k \in 1..Len(scans), pageNum \in 1..numPages : processSinglePageFail(k, pageNum)

PhraseSpec == MatchInit /\ [][PhraseNext]_vars

\* ------------------------------------------- one scan of a longer document
\* a fresh store in a viewer that is given a BatchPages-page document
BatchInit == Constructed /\ numPages = BatchPages

\* the document loads once, the first page may render, the user types one
\* phrase into the empty search box and may submit it again when no scan
\* runs, and the scans this starts run
BatchNext ==
    \/ ~fileData /\ FetchPdfOk
    \/ totalDocumentPages = NULL /\ handleDocumentLoadSuccess
    \/ pageJoinedTexts = Empty /\ handlePageTextSuccess(currentPage, DocItems(currentPage), TRUE)
    \/ totalDocumentPages # NULL /\ searchTerm = <<>> /\ setSearchTerm(<<"a">>)
    \/ ReadyToScan /\ searchTerm # <<>> /\ submitSearch
    \/ \E k \in 1..Len(scans) : loadPdfDocumentOk(k)
    \/ \E k \in 1..Len(scans) : loadPdfDocumentFail(k)
    \/ \E k \in 1..Len(scans), pageNum \in 1..numPages : processSinglePageOk(k, pageNum)
    \/ \E k \in 1..Len(scans), pageNum \in 1..numPages : processSinglePageFail(k, pageNum)

BatchSpec == BatchInit /\ [][BatchNext]_vars

\* ================================================================ properties
\* the joined text the decoder yields for a page of the document
DocJoined(p) == processTextItems(DocItems(p)).joinedText

\* one Match Computer pass of a phrase over the text of all pages of the document
FullPassTotal(term) ==
    TotalOf(recomputeMatches(term, [p \in Pages |-> DocJoined(p)], NULL).pageMatches)

\* the step ends scan k after its decoding phase
ScanEndsDecoded(k) ==
    /\ Len(scans') < Len(scans)
    /\ \/ loadPdfDocumentOk(k)
       \/ \E pageNum \in Pages : processSinglePageOk(k, pageNum)
       \/ \E pageNum \in Pages : processSinglePageFail(k, pageNum)

\* the step runs recomputeMatches
RecomputeStep ==
    \/ \E value \in Phrases : setSearchTerm(value)
    \/ submitSearch
    \/ clearSearch
    \/ ~isProcessingAllPages /\ handlePageTextSuccess(currentPage, DocItems(currentPage), TRUE)
    \/ \E k \in 1..Len(scans) : ScanEndsDecoded(k)

\* C1: at most one background scan is past the guard of
\* processAllPagesForSearch at any time, and a scan is running exactly when
\* isProcessingAllPages is set.
C1_AtMostOneScan ==
    /\ Len(scans) <= 1
    /\ isProcessingAllPages <=> (Len(scans) = 1)

\* a scan is running while a debounce timeout for the current phrase is pending
C1_Witness ==
    /\ Len(scans) = 1
    /\ searchTerm \in timers
    /\ Trim(searchTerm) # <<>>

\* C2: when a scan in which no decode failed completes, totalMatches equals
\* one Match Computer pass of the committed phrase over all pages of the document.
C2_ScanTotalIsFullPass ==
    [][\A k \in 1..Len(scans) :
          (ScanEndsDecoded(k) /\ ~scans[k].failed
             /\ ~(\E pageNum \in Pages : processSinglePageFail(k, pageNum)))
          => TotalOf(pageMatches') = FullPassTotal(submittedSearchTerm')]_vars

\* C3: currentMatchIndex is null or within [0, totalMatches), and null when
\* there are no matches.
C3_CurrentInRange ==
    /\ currentMatchIndex = NULL \/ (0 <= currentMatchIndex /\ currentMatchIndex < totalMatches)
    /\ totalMatches = 0 => currentMatchIndex = NULL

\* the last of three matches is selected
C3_Witness == totalMatches = 3 /\ currentMatchIndex = 2

\* C4: whenever no scan is running, the stored match sets are a full pass of
\* the committed phrase over every stored page text.
C4_MatchesCurrentWhenIdle ==
    ~isProcessingAllPages =>
        pageMatchRanges = MatchRangesOf(submittedSearchTerm, pageJoinedTexts)

\* nothing is pending: no scan, no debounce timeout, the document is loaded
\* and the rendered page has delivered its text
Quiescent ==
    /\ scans = <<>>
    /\ ~isProcessingAllPages
    /\ timers = {}
    /\ fileData
    /\ totalDocumentPages # NULL
    /\ currentPage \in DOMAIN pageJoinedTexts

\* C5: a committed non-empty phrase is eventually checked against the whole
\* document; so once nothing is pending every page has stored text and the
\* match sets cover every page.
C5_QuiescentCoversDocument ==
    (Quiescent /\ Trim(submittedSearchTerm) # <<>>) =>
        /\ DOMAIN pageJoinedTexts = Pages
        /\ DOMAIN pageMatchRanges = Pages

\* C6: totalMatches is the sum of matchCount(page) over the pages, and the
\* count of a page is the number of its stored spans, with equal key sets.
C6_CountsAgree ==
    /\ DOMAIN pageMatches = DOMAIN pageMatchRanges
    /\ \A p \in DOMAIN pageMatches : pageMatches[p] = Len(pageMatchRanges[p])
    /\ totalMatches = getMatchCountBeforePage(NumPages + 1)

\* matches on two pages
C6_Witness ==
    /\ Cardinality({p \in DOMAIN pageMatches : pageMatches[p] > 0}) = 2
    /\ totalMatches = 3

\* C7: getPageForMatchIndex is defined exactly on [0, totalMatches), and the
\* page it returns owns the index.
C7_PageForIndex ==
    \A i \in (0 - 2)..(totalMatches + 2) :
        LET page == getPageForMatchIndex(i) IN
        /\ (0 <= i /\ i < totalMatches) => page # NULL
        /\ (i < 0 \/ i >= totalMatches) => page = NULL
        /\ page # NULL =>
              /\ getMatchCountBeforePage(page) <= i
              /\ i < getMatchCountBeforePage(page) + MatchesOnPage(page)

\* the third match lies on the second page
C7_Witness ==
    /\ totalMatches = 3
    /\ getPageForMatchIndex(2) = 2
    /\ getPageForMatchIndex(1) = 1

\* C8: every recompute re-clamps currentMatchIndex: null when the phrase is
\* empty or nothing matches, 0 when it was null or out of range, else unchanged.
C8_Reclamp ==
    [][RecomputeStep =>
          IF Trim(submittedSearchTerm') = <<>> \/ TotalOf(pageMatches') = 0
          THEN currentMatchIndex' = NULL
          ELSE IF currentMatchIndex = NULL \/ currentMatchIndex < 0
                  \/ currentMatchIndex >= TotalOf(pageMatches')
               THEN currentMatchIndex' = 0
               ELSE currentMatchIndex' = currentMatchIndex]_vars

\* a selected match other than the first, with every page indexed and no scan running
C8_Witness ==
    /\ currentMatchIndex = 1
    /\ totalMatches = 2
    /\ DOMAIN pageJoinedTexts = Pages
    /\ ~isProcessingAllPages

C11_FocusFollowsMatch ==
    [][((nextMatch \/ prevMatch) /\ totalMatches > 0)
       => (currentPage = getPageForMatchIndex(currentMatchIndex))']_vars

\* the second of three matches is current, on page 1, and the viewer shows it
C11_Witness ==
    /\ totalMatches = 3
    /\ currentMatchIndex = 1
    /\ getPageForMatchIndex(1) = 1
    /\ currentPage = 1

\* ------------------------------------------------------------------- C12
\* the steps whose handler calls processAllPagesForSearch
ScanRequestedByEdit(value) ==
    /\ setSearchTerm(value)
    /\ Trim(value) # <<>>
    /\ ~isProcessingAllPages
    /\ (value # searchTerm \/ ~hasProcessedAllPagesForCurrentSearch)

ScanRequestedByTimer(value) ==
    /\ debounceFire(value)
    /\ searchTerm = value
    /\ Trim(value) # <<>>
    /\ ~isProcessingAllPages

ScanRequestedBySubmit ==
    /\ submitSearch
    /\ Trim(searchTerm) # <<>>
    /\ ~isProcessingAllPages

\* C12: isProcessingAllPages becomes true only in a step that leaves a
\* non-blank committed phrase, with fileData and totalDocumentPages set and no
\* scan running; a scan request made while one of these fails leaves the
\* scheduler state (isProcessingAllPages, the scans, the completed-scan flag)
\* and the page text index as they were
C12_GuardedEntry ==
    [][/\ (~isProcessingAllPages /\ isProcessingAllPages')
           => /\ Trim(submittedSearchTerm') # <<>>
              /\ fileData /\ totalDocumentPages # NULL
              /\ scans = <<>> /\ Len(scans') = 1
       /\ \A value \in Phrases :
            (ScanRequestedByEdit(value) /\ ~canProcessPages(value))
               => /\ ~hasProcessedAllPagesForCurrentSearch'
                  /\ UNCHANGED <<isProcessingAllPages, scans, textVars>>
       /\ ((\E value \in Phrases : ScanRequestedByTimer(value)) \/ ScanRequestedBySubmit)
          /\ ~canProcessPages(submittedSearchTerm')
            => UNCHANGED <<isProcessingAllPages, scans, textVars,
                           hasProcessedAllPagesForCurrentSearch>>]_vars

\* ------------------------------------------------------------------- C13
\* C13: a scan never has more than PAGE_PROCESSING_BATCH_SIZE page decodes in
\* flight, so a decode of a later batch starts only after the batch before it
\* settled
C13_BoundedDecodes ==
    \A k \in 1..Len(scans) :
        Cardinality(InFlight(scans[k])) <= PAGE_PROCESSING_BATCH_SIZE

\* ------------------------------------------------------------------- C14
\* C14: a failing page decode stores nothing for its page and leaves the error
\* field alone; the other decodes of the scan stay in flight and the scan goes
\* on, and when the failing decode is the last one to settle the scan ends
\* with the final recompute, in which the page without text has no matches
C14_DecodeFailureIsolated ==
    [][\A k \in 1..Len(scans), pageNum \in Pages :
         processSinglePageFail(k, pageNum)
            => /\ error' = error
               /\ UNCHANGED textVars
               /\ IF InFlight(scans[k]) = {pageNum}
                  THEN /\ scans' = RemoveAt(scans, k)
                       /\ ~isProcessingAllPages'
                       /\ pageMatchRanges' = MatchRangesOf(submittedSearchTerm, pageJoinedTexts)
                       /\ (pageNum \notin DOMAIN pageJoinedTexts
                              => pageNum \notin DOMAIN pageMatches')
                  ELSE /\ isProcessingAllPages'
                       /\ Len(scans') = Len(scans)
                       /\ InFlight(scans'[k]) = InFlight(scans[k]) \ {pageNum}
                       /\ UNCHANGED matchVars]_vars

\* a scan goes on after one of its decodes failed
C14_Witness ==
    /\ isProcessingAllPages
    /\ \E k \in 1..Len(scans) : scans[k].failed /\ InFlight(scans[k]) # {}

\* ------------------------------------------------------------------- C15
\* the step leaves pageMatches, pageMatchRanges and currentMatchIndex as one
\* recomputeMatches over the pages known after it, then the re-clamp, gives
RecomputedAtEnd ==
    LET rec == recomputeMatches(submittedSearchTerm, pageJoinedTexts', currentMatchIndex)
    IN  /\ pageMatches' = rec.pageMatches
        /\ pageMatchRanges' = rec.pageMatchRanges
        /\ currentMatchIndex' = rec.currentMatchIndex

\* C15: every step that ends a scan, after successful or failed decoding,
\* returns the scheduler to idle and leaves the matches as one full recompute
\* over all pages known at that moment, re-clamped
C15_ScanEndsWithRecompute ==
    [][Len(scans') < Len(scans) => (~isProcessingAllPages' /\ RecomputedAtEnd)]_vars

\* ------------------------------------------------------------------- C17
\* a step of scan k: its document load or one of its decodes settles
ScanStep(k) ==
    \/ loadPdfDocumentOk(k)
    \/ loadPdfDocumentFail(k)
    \/ \E pageNum \in Pages : processSinglePageOk(k, pageNum)
    \/ \E pageNum \in Pages : processSinglePageFail(k, pageNum)

\* C17: while a scan runs, a page text stored by the scan or by the viewer
\* leaves pageMatches, pageMatchRanges and currentMatchIndex unchanged; a scan
\* recomputes the matches exactly once, in the step that ends it, after every
\* decode has settled
C17_OneRecomputePerScan ==
    [][/\ (isProcessingAllPages /\ isProcessingAllPages'
           /\ \/ handlePageTextSuccess(currentPage, DocItems(currentPage), TRUE)
              \/ \E k \in 1..Len(scans) : ScanStep(k))
          => UNCHANGED matchVars
       /\ \A k \in 1..Len(scans) :
            (ScanStep(k) /\ Len(scans') < Len(scans))
               => InFlight(scans[k]) \subseteq {pageNum \in Pages : processSinglePageOk(k, pageNum) \/ processSinglePageFail(k, pageNum)}
                  /\ RecomputedAtEnd]_vars

\* ------------------------------------------------------------------- C16
\* C16: when the document load and the page decodes of a scan settle, a
\* running scan leads to a state with no scan running
C16_ScanTerminates == isProcessingAllPages ~> ~isProcessingAllPages

\* a scan ran to its end and the scheduler is idle again
C16_Witness ==
    /\ ~isProcessingAllPages
    /\ scans = <<>>
    /\ hasProcessedAllPagesForCurrentSearch
    /\ Trim(submittedSearchTerm) # <<>>
    /\ DOMAIN pageMatches = Pages
    /\ timers = {}

\* ------------------------------------------------------------------- C18
\* C18: with the document loaded and no scan running, setSearchTerm with a
\* new non-blank value, and submitSearch of a non-blank phrase no scan has
\* completed for, start a scan in that same step
C18_FirstCommitStartsScan ==
    [][/\ \A value \in Phrases :
            (setSearchTerm(value) /\ value # searchTerm /\ Trim(value) # <<>> /\ ReadyToScan)
               => (isProcessingAllPages' /\ Len(scans') = Len(scans) + 1 /\ timers' = {})
       /\ (submitSearch /\ Trim(searchTerm) # <<>> /\ ReadyToScan
           /\ ~hasProcessedAllPagesForCurrentSearch)
               => (isProcessingAllPages' /\ Len(scans') = Len(scans) + 1)]_vars

\* the scan started by typing the first phrase awaits the document
C18_Witness ==
    /\ isProcessingAllPages
    /\ Len(scans) = 1
    /\ scans[1].phase = "loading"
    /\ scans[1].setsFlag
    /\ ~hasProcessedAllPagesForCurrentSearch
    /\ timers = {}
    /\ pageJoinedTexts = Empty

\* ------------------------------------------------------------------- C19
\* C19: when a scan has completed for the phrase and none is running,
\* setSearchTerm with a changed non-blank value starts no scan in that step
\* and leaves the start to the debounce timer it arms
C19_EditAfterScanIsDebounced ==
    [][\A value \in Phrases :
         (setSearchTerm(value) /\ value # searchTerm /\ Trim(value) # <<>>
          /\ Trim(searchTerm) # <<>>
          /\ hasProcessedAllPagesForCurrentSearch /\ ReadyToScan)
            => (~isProcessingAllPages' /\ scans' = scans /\ value \in timers')]_vars

\* ------------------------------------------------------------------- C20
\* C20: submitSearch of a non-blank draft with the document loaded and no scan
\* running starts a scan in that step, whether or not a scan has completed
\* for the phrase and whether or not a debounce timer is pending, and no
\* debounce timer is pending after it
C20_SubmitStartsScan ==
    [][(submitSearch /\ Trim(searchTerm) # <<>> /\ ReadyToScan)
          => /\ isProcessingAllPages'
             /\ Len(scans') = Len(scans) + 1
             /\ searchDebounceTimer' = NoTimer
             /\ timers' = {}]_vars

\* a scan started by submitSearch runs although one has completed for the phrase
C20_Witness ==
    /\ isProcessingAllPages
    /\ Len(scans) = 1
    /\ ~scans[1].setsFlag
    /\ hasProcessedAllPagesForCurrentSearch
    /\ DOMAIN pageJoinedTexts = Pages

\* ------------------------------------------------------------------- C21
\* C21: every setSearchTerm and every submitSearch, with or without a scan
\* running or a debounce timer pending, leaves pageMatchRanges equal to the
\* match spans of the phrase it commits over the pages stored at that moment
C21_CommitRecomputes ==
    [][((\E value \in Phrases : setSearchTerm(value)) \/ submitSearch)
          => /\ pageJoinedTexts' = pageJoinedTexts
             /\ pageMatchRanges' = MatchRangesOf(submittedSearchTerm', pageJoinedTexts)
             /\ pageMatches' =
                   [p \in DOMAIN pageMatchRanges' |-> Len(pageMatchRanges'[p])]]_vars

\* a phrase was committed while a scan runs, with a debounce timer pending,
\* and the matches of the stored page are there
C21_Witness ==
    /\ isProcessingAllPages
    /\ timers # {}
    /\ DOMAIN pageJoinedTexts = {1}
    /\ DOMAIN pageMatchRanges = {1}
    /\ totalMatches = 2

\* ------------------------------------------------------------------- C22
\* C22: setSearchTerm, submitSearch and clearSearch taken while a scan runs
\* leave the scan and its decodes as they are; a scan that ends while the
\* committed phrase is blank leaves pageMatches and pageMatchRanges empty and
\* currentMatchIndex null
C22_ScanNotCancelled ==
    [][/\ (isProcessingAllPages
           /\ ((\E value \in Phrases : setSearchTerm(value)) \/ submitSearch \/ clearSearch))
          => (scans' = scans /\ isProcessingAllPages')
       /\ (Len(scans') < Len(scans) /\ Trim(submittedSearchTerm) = <<>>)
          => (pageMatches' = Empty /\ pageMatchRanges' = Empty
              /\ currentMatchIndex' = NULL)]_vars

\* the phrase was cleared during a scan and the scan has finished since
C22_Witness ==
    /\ ~isProcessingAllPages
    /\ scans = <<>>
    /\ submittedSearchTerm = <<>>
    /\ hasProcessedAllPagesForCurrentSearch
    /\ DOMAIN pageJoinedTexts = Pages
    /\ pageMatches = Empty
    /\ currentMatchIndex = NULL

\* ------------------------------------------------------------------- C23
\* C23: when a scan starts its decodes, they are the decodes of exactly the
\* pages 1..numPages that have no record in the page text index; a page with
\* a record, even one whose joined text is empty, is not decoded again
C23_DecodesExactlyMissing ==
    [][\A k \in 1..Len(scans) :
         loadPdfDocumentOk(k)
            => LET missing == {p \in 1..numPages : p \notin DOMAIN pageJoinedTexts}
               IN  IF Len(scans') = Len(scans)
                   THEN InFlight(scans'[k]) = missing
                   ELSE missing = {}]_vars

\* ------------------------------------------------------------------- C24
\* the fragments of a sequence of text items (item.str ?? "")
Fragments(items) == [k \in 1..Len(items) |-> IF items[k].has THEN items[k].str ELSE <<>>]

\* the first n fragments of F with one space between neighbours
RECURSIVE SpaceJoined(_, _)
SpaceJoined(F, n) ==
    IF n = 0 THEN <<>>
    ELSE IF n = 1 THEN F[1]
    ELSE SpaceJoined(F, n - 1) \o <<" ">> \o F[n]

\* C24: for every sequence of items, the empty one and ones with empty
\* fragments included, the stored joined text is the fragments joined by
\* single spaces, its length is the sum of the fragment lengths plus
\* max(0, |F| - 1), and there are exactly |F| spans
C24_JoinedText ==
    [][\A items \in ItemSeqs :
         handlePageTextSuccess(currentPage, items, TRUE)
            => LET F == Fragments(items)
               IN  /\ pageTexts'[currentPage] = F
                   /\ pageJoinedTexts'[currentPage] = SpaceJoined(F, Len(F))
                   /\ Len(pageJoinedTexts'[currentPage])
                         = SumLens(F, Len(F)) + Max(0, Len(F) - 1)
                   /\ Len(pageTextItemRanges'[currentPage]) = Len(F)]_vars

\* a page stored from an empty fragment followed by "a"
C24_Witness ==
    \E p \in DOMAIN pageTexts :
        /\ pageTexts[p] = << <<>>, <<"a">> >>
        /\ pageJoinedTexts[p] = <<" ", "a">>
        /\ Len(pageTextItemRanges[p]) = 2

\* ------------------------------------------------------------------- C25
\* C25: for every stored page the first span starts at 0, span i is as long
\* as fragment i and cuts fragment i out of the joined text, and each next
\* span starts one character after the end of the span before it
C25_FragmentSpans ==
    \A p \in DOMAIN pageTexts :
        LET F == pageTexts[p]
            t == pageJoinedTexts[p]
            sp == pageTextItemRanges[p]
        IN  /\ Len(sp) = Len(F)
            /\ Len(sp) > 0 => sp[1].start = 0
            /\ \A i \in 1..Len(sp) :
                 /\ sp[i].end - sp[i].start = Len(F[i])
                 /\ sp[i].end <= Len(t)
                 /\ SubSeq(t, sp[i].start + 1, sp[i].end) = F[i]
            /\ \A i \in 1..(Len(sp) - 1) :
                 /\ sp[i + 1].start = sp[i].end + 1
                 /\ sp[i + 1].start > sp[i].start

\* a page stored from two adjacent empty fragments
C25_Witness ==
    \E p \in DOMAIN pageTexts :
        /\ pageTexts[p] = << <<>>, <<>> >>
        /\ pageTextItemRanges[p] = <<[start |-> 0, end |-> 0], [start |-> 1, end |-> 1]>>

\* ------------------------------------------------------------------- C26
\* C26: storing the text of a page makes the page's record the new fragments,
\* joined text and spans, and leaves the record of every other page as it
\* was; storing the same fragments again changes nothing, and two pages
\* stored in either order give the same tables
C26_StoreReplacesOnePage ==
    [][\A items \in ItemSeqs :
         handlePageTextSuccess(currentPage, items, TRUE)
            => LET p == currentPage
                   new == processTextItems(items)
               IN  /\ DOMAIN pageTexts' = DOMAIN pageTexts \cup {p}
                   /\ DOMAIN pageJoinedTexts' = DOMAIN pageTexts'
                   /\ DOMAIN pageTextItemRanges' = DOMAIN pageTexts'
                   /\ pageTexts'[p] = new.textArray
                   /\ pageJoinedTexts'[p] = new.joinedText
                   /\ pageTextItemRanges'[p] = new.itemRanges
                   /\ \A q \in DOMAIN pageTexts \ {p} :
                        /\ pageTexts'[q] = pageTexts[q]
                        /\ pageJoinedTexts'[q] = pageJoinedTexts[q]
                        /\ pageTextItemRanges'[q] = pageTextItemRanges[q]
                   /\ (p \in DOMAIN pageTexts /\ pageTexts[p] = new.textArray)
                         => UNCHANGED textVars
                   /\ \A q \in Pages \ {p}, other \in ItemSeqs :
                        Put(pageTexts', q, Fragments(other))
                           = Put(Put(pageTexts, q, Fragments(other)), p, new.textArray)]_vars

\* both pages are stored, with different records
C26_Witness ==
    /\ DOMAIN pageTexts = Pages
    /\ pageTexts[1] = << <<"a">> >>
    /\ pageTexts[2] = << <<>>, <<"a", " ", "b">> >>

\* ------------------------------------------------------------------- C27
\* C27: with a blank committed phrase there are no matches on any page,
\* totalMatches is 0 and currentMatchIndex is null; a page without stored text
\* has no entry in the match tables and counts zero matches
C27_BlankPhraseNoMatches ==
    /\ Trim(submittedSearchTerm) = <<>>
          => /\ pageMatches = Empty
             /\ pageMatchRanges = Empty
             /\ totalMatches = 0
             /\ currentMatchIndex = NULL
    /\ \A p \in Pages \ DOMAIN pageJoinedTexts :
          /\ p \notin DOMAIN pageMatches
          /\ p \notin DOMAIN pageMatchRanges
          /\ MatchesOnPage(p) = 0

\* a whitespace-only phrase is committed while a page is stored
C27_Witness ==
    /\ submittedSearchTerm = <<" ">>
    /\ DOMAIN pageJoinedTexts = {1}
    /\ pageMatches = Empty
    /\ ~isProcessingAllPages

\* ------------------------------------------------------------------- C28
\* the "i" flag applied to a whole string
CaseFold(str) == [k \in 1..Len(str) |-> Canonicalize(str[k])]

\* C28: when no scan runs, the match spans of a page are non-empty
\* occurrences of the phrase in the page's joined text, each starts at or
\* after the end of the one before it, no occurrence starts between the end
\* of one span and the start of the next or after the last, and the spans
\* are those of the case-folded text
C28_MatchSpansOrdered ==
    (~isProcessingAllPages /\ Trim(submittedSearchTerm) # <<>>)
       => \A p \in DOMAIN pageMatchRanges :
            LET r == pageMatchRanges[p]
                t == pageJoinedTexts[p]
                atoms == Compile(RegexPattern(Trim(submittedSearchTerm)))
                From(i) == IF i = 1 THEN 0 ELSE r[i - 1].end
            IN  /\ \A i \in 1..Len(r) :
                     /\ r[i].start < r[i].end
                     /\ r[i].end <= Len(t)
                     /\ r[i].start >= From(i)
                     /\ MatchHere(t, r[i].start, atoms, 1) = r[i].end
                     /\ \A j \in From(i)..(r[i].start - 1) : MatchHere(t, j, atoms, 1) = NULL
                /\ \A j \in From(Len(r) + 1)..Len(t) : MatchHere(t, j, atoms, 1) = NULL
                /\ r = PageRanges(Trim(submittedSearchTerm), CaseFold(t))
                /\ pageMatches[p] = Len(r)

\* "a a" in "a A a": one span, the occurrence overlapping it is not reported
C28_Witness ==
    /\ ~isProcessingAllPages
    /\ submittedSearchTerm = <<"a", " ", "a">>
    /\ 1 \in DOMAIN pageJoinedTexts
    /\ pageJoinedTexts[1] = <<"a", " ", "A", " ", "a">>
    /\ pageMatchRanges = (1 :> <<[start |-> 0, end |-> 3]>>)

RECURSIVE RegExpAccepts(_, _, _)
RegExpAccepts(pat, canRepeat, depth) ==
    IF pat = <<>> THEN depth = 0
    ELSE LET c == Head(pat) IN
         IF c = "\\" THEN Len(pat) >= 2 /\ RegExpAccepts(Drop(pat, 2), TRUE, depth)
         ELSE IF c \in {"*", "+", "?"}
              THEN canRepeat /\ RegExpAccepts(Tail(pat), FALSE, depth)
         ELSE IF c = "(" THEN RegExpAccepts(Tail(pat), FALSE, depth + 1)
         ELSE IF c = ")" THEN depth > 0 /\ RegExpAccepts(Tail(pat), TRUE, depth - 1)
         ELSE IF c = "["
              THEN LET closes == {k \in 2..Len(pat) : pat[k] = "]"}
                   IN  /\ closes # {}
                       /\ RegExpAccepts(Drop(pat, CHOOSE k \in closes :
                                                     \A m \in closes : k <= m),
                                        TRUE, depth)
         ELSE IF c \in {"^", "$", "|"} THEN RegExpAccepts(Tail(pat), FALSE, depth)
         ELSE RegExpAccepts(Tail(pat), TRUE, depth)

\* the words of a string, case-folded
FoldedWords(str) ==
    LET words == FilterNonEmpty(SplitWs(str))
    IN  [k \in 1..Len(words) |-> CaseFold(words[k])]

\* C30: the pattern built from any committed phrase is one RegExp accepts,
\* and when no scan runs every match span covers the words of the phrase
\* character by character (up to case), separated by whitespace: "a.b" is
\* found in "a.b" and not in "axb"
C30_LiteralMatch ==
    Trim(submittedSearchTerm) # <<>>
       => /\ RegExpAccepts(RegexPattern(Trim(submittedSearchTerm)), FALSE, 0)
          /\ ~isProcessingAllPages
                => \A p \in DOMAIN pageMatchRanges :
                     LET r == pageMatchRanges[p]
                         t == pageJoinedTexts[p]
                     IN  \A i \in 1..Len(r) :
                           LET slice == SubSeq(t, r[i].start + 1, r[i].end)
                           IN  /\ FoldedWords(slice) = FoldedWords(submittedSearchTerm)
                               /\ slice[1] \notin Whitespace
                               /\ slice[Len(slice)] \notin Whitespace

\* "a.b" is committed, the page reads "axb a.b", and the one match is "a.b"
C30_Witness ==
    /\ ~isProcessingAllPages
    /\ submittedSearchTerm = <<"a", ".", "b">>
    /\ 1 \in DOMAIN pageJoinedTexts
    /\ pageJoinedTexts[1] = <<"a", "x", "b", " ", "a", ".", "b">>
    /\ pageMatchRanges = (1 :> <<[start |-> 4, end |-> 7]>>)

\* ------------------------------------------------------------------- C31
\* the characters s..e-1 of text read the words of the phrase, in order,
\* separated by whitespace, with no whitespace at either end
PhraseAt(text, s, e, phrase) ==
    LET slice == SubSeq(text, s + 1, e)
    IN  /\ s < e
        /\ slice[1] \notin Whitespace
        /\ slice[Len(slice)] \notin Whitespace
        /\ FoldedWords(slice) = FoldedWords(phrase)

\* C31: when no scan runs, every match span of a page reads the words of the
\* committed phrase separated by one or more whitespace characters, and every
\* such place in the joined text is a span or overlaps one, whether the
\* whitespace is the joiner's separator or lies inside a fragment; phrase
\* "hello world" over fragments ["hello", "world"] gives the single span
\* [0, 11) over the joined text "hello world"
C31_PhraseAcrossFragments ==
    (~isProcessingAllPages /\ Trim(submittedSearchTerm) # <<>>)
       => \A p \in DOMAIN pageJoinedTexts :
            LET t == pageJoinedTexts[p]
                r == pageMatchRanges[p]
                Occ == {o \in (0..Len(t)) \X (0..Len(t)) :
                           PhraseAt(t, o[1], o[2], submittedSearchTerm)}
            IN  /\ \A i \in 1..Len(r) : <<r[i].start, r[i].end>> \in Occ
                /\ \A o \in Occ : \E i \in 1..Len(r) :
                       Max(o[1], r[i].start) < Min(o[2], r[i].end)
                /\ (pageTexts[p] = <<Hello, World>>
                      /\ submittedSearchTerm = Hello \o <<" ">> \o World)
                     => /\ t = Hello \o <<" ">> \o World
                        /\ r = <<[start |-> 0, end |-> 11]>>

\* "hello world" is committed over the fragments "hello" and "world", and the
\* one span is [0, 11)
C31_Witness ==
    /\ ~isProcessingAllPages
    /\ submittedSearchTerm = Hello \o <<" ">> \o World
    /\ 1 \in DOMAIN pageTexts
    /\ pageTexts[1] = <<Hello, World>>
    /\ pageMatchRanges = (1 :> <<[start |-> 0, end |-> 11]>>)

\* ------------------------------------------------------------------- C32
\* the arguments findOverlappingMatches is given for a page: the page's
\* stored match spans and fragment spans as the text renderer passes them,
\* and every list of up to MaxSpans spans and every fragment span within
\* 0..MaxOffset; the text length is any length up to MaxOffset
ProbeSpans == {[start |-> a, end |-> b] : a \in 0..MaxOffset, b \in 0..MaxOffset}

MatchArgs(p) ==
    {IF p \in DOMAIN pageMatchRanges THEN pageMatchRanges[p] ELSE <<>>}
       \cup UNION {[1..n -> {m \in ProbeSpans : m.start < m.end}] : n \in 0..MaxSpans}

FragArgs(p) ==
    (IF p \in DOMAIN pageTextItemRanges
        THEN {pageTextItemRanges[p][k] : k \in 1..Len(pageTextItemRanges[p])}
        ELSE {})
       \cup {f \in ProbeSpans : f.start <= f.end}

StrLengths == 0..MaxOffset

Clamp(x, lo, hi) == Max(lo, Min(x, hi))

\* strict overlap of a match span and a fragment span
Overlaps(m, frag) == Max(m.start, frag.start) < Min(m.end, frag.end)

\* the sum of the matches on the pages numbered below page
CountBefore(page) == SumOver(pageMatches, {q \in DOMAIN pageMatches : q < page})

\* C32: findOverlappingMatches returns exactly one entry for each match that
\* strictly overlaps the fragment and none for the others; the entry of the
\* match with ordinal i has localStart = clamp(match.start - frag.start, 0,
\* fragmentTextLength), localEnd = clamp(match.end - frag.start, 0,
\* fragmentTextLength) and globalIndex = matchCountBeforePage(page) + i; the
\* entries are sorted by localStart ascending
C32_OverlapEntries ==
    \A p \in Pages : \A ms \in MatchArgs(p) : \A frag \in FragArgs(p) : \A n \in StrLengths :
       LET out == findOverlappingMatches(p, ms, frag, n)
           hits == {i \in 1..Len(ms) : Overlaps(ms[i], frag)}
       IN  /\ Len(out) = Cardinality(hits)
           /\ \A i \in hits :
                \E k \in 1..Len(out) :
                   /\ out[k].globalIndex = CountBefore(p) + (i - 1)
                   /\ out[k].localStart = Clamp(ms[i].start - frag.start, 0, n)
                   /\ out[k].localEnd = Clamp(ms[i].end - frag.start, 0, n)
           /\ \A k \in 1..(Len(out) - 1) : out[k].localStart <= out[k + 1].localStart

\* ------------------------------------------------------------------- C33
\* the entries of findOverlappingMatches that carry the given globalIndex
EntriesFor(out, g) == {k \in 1..Len(out) : out[k].globalIndex = g}

\* two fragment spans of a page with the joiner's one separator between them
Adjacent(f1, f2) == f2.start = f1.end + 1

\* C33: a match that overlaps two adjacent fragments gives one entry against
\* each of them, both with the match's globalIndex; the entry of the first
\* fragment ends at that fragment's length and the entry of the second starts
\* at 0; a match that covers only the separator between them gives no entry
\* against either
C33_MatchAcrossFragments ==
    \A p \in Pages : \A ms \in MatchArgs(p) :
       \A f1 \in FragArgs(p) : \A f2 \in {f \in FragArgs(p) : Adjacent(f1, f)} :
          LET out1 == findOverlappingMatches(p, ms, f1, f1.end - f1.start)
              out2 == findOverlappingMatches(p, ms, f2, f2.end - f2.start)
          IN  \A i \in 1..Len(ms) :
                 LET g == getMatchCountBeforePage(p) + (i - 1) IN
                 /\ (Overlaps(ms[i], f1) /\ Overlaps(ms[i], f2))
                       => /\ Cardinality(EntriesFor(out1, g)) = 1
                          /\ Cardinality(EntriesFor(out2, g)) = 1
                          /\ \A k \in EntriesFor(out1, g) : out1[k].localEnd = f1.end - f1.start
                          /\ \A k \in EntriesFor(out2, g) : out2[k].localStart = 0
                 /\ (ms[i].start = f1.end /\ ms[i].end = f2.start)
                       => /\ EntriesFor(out1, g) = {}
                          /\ EntriesFor(out2, g) = {}

\* "a b" is committed, page 2 carries the fragments "a" and "b", and its one
\* match [0, 3), the second of the document, is resolved against both
C33_Witness ==
    /\ 2 \in DOMAIN pageMatchRanges
    /\ 2 \in DOMAIN pageTextItemRanges
    /\ pageMatchRanges[2] = <<[start |-> 0, end |-> 3]>>
    /\ pageTextItemRanges[2] = <<[start |-> 0, end |-> 1], [start |-> 2, end |-> 3]>>
    /\ findOverlappingMatches(2, pageMatchRanges[2], pageTextItemRanges[2][1], 1)
          = <<[matchStart |-> 0, matchEnd |-> 3, localStart |-> 0, localEnd |-> 1,
               globalIndex |-> 1]>>
    /\ findOverlappingMatches(2, pageMatchRanges[2], pageTextItemRanges[2][2], 1)
          = <<[matchStart |-> 0, matchEnd |-> 3, localStart |-> 0, localEnd |-> 1,
               globalIndex |-> 1]>>

\* ------------------------------------------------------------------- C39
\* the spans of a list are pairwise non-overlapping
NonOverlapping(ms) ==
    \A i, j \in 1..Len(ms) :
       i # j => Min(ms[i].end, ms[j].end) <= Max(ms[i].start, ms[j].start)

\* C39: for a fragment whose text length equals its span length and match
\* spans that do not overlap one another, every entry returned by
\* findOverlappingMatches has 0 <= localStart < localEnd <= text length, and
\* the entries' ranges are pairwise disjoint
C39_EntriesWithinFragment ==
    \A p \in Pages : \A ms \in {m \in MatchArgs(p) : NonOverlapping(m)} :
       \A frag \in FragArgs(p) :
          LET n == frag.end - frag.start
              out == findOverlappingMatches(p, ms, frag, n)
          IN  /\ \A k \in 1..Len(out) :
                    /\ 0 <= out[k].localStart
                    /\ out[k].localStart < out[k].localEnd
                    /\ out[k].localEnd <= n
              /\ \A k, l \in 1..Len(out) :
                    k < l => out[k].localEnd <= out[l].localStart

\* "a" is committed and the page's one fragment "A a" holds both matches
C39_Witness ==
    /\ 1 \in DOMAIN pageMatchRanges
    /\ 1 \in DOMAIN pageTextItemRanges
    /\ pageTextItemRanges[1] = <<[start |-> 0, end |-> 3]>>
    /\ pageMatchRanges[1] = <<[start |-> 0, end |-> 1], [start |-> 2, end |-> 3]>>
    /\ findOverlappingMatches(1, pageMatchRanges[1], pageTextItemRanges[1][1], 3)
          = <<[matchStart |-> 0, matchEnd |-> 1, localStart |-> 0, localEnd |-> 1,
               globalIndex |-> 0],
              [matchStart |-> 2, matchEnd |-> 3, localStart |-> 2, localEnd |-> 3,
               globalIndex |-> 1]>>

\* ------------------------------------------------------------------- C34
\* the (page, local index) pairs of the matches
MatchSlots == {s \in Pages \X (0..totalMatches) : s[2] < MatchesOnPage(s[1])}

\* globalIndex(page, localIdx)
GlobalIndexOf(s) == getMatchCountBeforePage(s[1]) + s[2]

\* C34: the global index maps the (page, local index) pairs of the matches,
\* ordered by page then by local index, one-to-one and in order onto
\* 0..totalMatches-1, and getPageForMatchIndex maps each index back to its page
C34_GlobalIndexBijection ==
    /\ \A s \in MatchSlots :
          /\ 0 <= GlobalIndexOf(s)
          /\ GlobalIndexOf(s) < totalMatches
          /\ getPageForMatchIndex(GlobalIndexOf(s)) = s[1]
    /\ \A s, t \in MatchSlots :
          (s[1] < t[1] \/ (s[1] = t[1] /\ s[2] < t[2])) => GlobalIndexOf(s) < GlobalIndexOf(t)
    /\ \A g \in 0..(totalMatches - 1) : \E s \in MatchSlots : GlobalIndexOf(s) = g

\* two matches on page 1 and one on page 2: the first match of page 2 is the
\* third of the document
C34_Witness ==
    /\ MatchesOnPage(1) = 2
    /\ MatchesOnPage(2) = 1
    /\ GlobalIndexOf(<<2, 0>>) = 2
    /\ getPageForMatchIndex(2) = 2

\* ------------------------------------------------------------------- C35
\* the three tables hold the same pages, and for every page the joined text
\* and the spans are those of the page's stored fragment list
TablesAgree ==
    /\ DOMAIN pageJoinedTexts = DOMAIN pageTexts
    /\ DOMAIN pageTextItemRanges = DOMAIN pageTexts
    /\ \A p \in DOMAIN pageTexts :
          /\ pageJoinedTexts[p] = JoinWith(pageTexts[p], <<" ">>)
          /\ pageTextItemRanges[p]
                = [k \in 1..Len(pageTexts[p]) |-> ItemRangeOf(pageTexts[p], k)]

\* a decode of a scan succeeds for the page, or the page's text arrives from
\* the renderer
TextArrives(pageNum) ==
    \/ \E k \in 1..Len(scans) : processSinglePageOk(k, pageNum)
    \/ handlePageTextSuccess(pageNum, DocItems(pageNum), TRUE)

\* C35: in every state the three tables of the Page Text Index agree page by
\* page, and every successful decode and every text arrival, in whatever
\* order they come, stores the page's record and keeps the record of every
\* other page
C35_NoLostTextUpdate ==
    /\ []TablesAgree
    /\ [][\A pageNum \in Pages :
            TextArrives(pageNum)
               => /\ pageNum \in DOMAIN pageTexts'
                  /\ pageTexts'[pageNum] = processTextItems(DocItems(pageNum)).textArray
                  /\ \A q \in DOMAIN pageTexts \ {pageNum} :
                        /\ q \in DOMAIN pageTexts'
                        /\ pageTexts'[q] = pageTexts[q]
                        /\ pageJoinedTexts'[q] = pageJoinedTexts[q]
                        /\ pageTextItemRanges'[q] = pageTextItemRanges[q]]_vars

\* a scan decodes pages 1 and 2: the decode of page 2 has succeeded, the text
\* of page 1 has arrived from the renderer while its decode is in flight, and
\* both pages have their records
C35_Witness ==
    /\ \E k \in 1..Len(scans) :
          /\ scans[k].phase = "decoding"
          /\ ~scans[k].failed
          /\ scans[k].settled = {2}
          /\ InFlight(scans[k]) = {1}
    /\ DOMAIN pageTexts = {1, 2}
    /\ TablesAgree

\* ------------------------------------------------------------------- C36
\* C36: hasProcessedAllPagesForCurrentSearch becomes true only in a step in
\* which a scan that entered Scanning comes to its end
C36_FlagOnlyAfterScan ==
    [][(~hasProcessedAllPagesForCurrentSearch /\ hasProcessedAllPagesForCurrentSearch')
          => Len(scans') < Len(scans)]_vars

\* ------------------------------------------------------------------- C37
\* C37: at most one debounce timer is pending; setSearchTerm, submitSearch
\* and clearSearch cancel the pending timer (after setSearchTerm(value) only
\* the timer it armed for value can be pending, after the other two none);
\* and the callback of the timer armed for value starts a scan only if the
\* draft phrase is still value, value is not blank and no scan is running
C37_SingleCancelableTimer ==
    /\ [](Cardinality(timers) <= 1)
    /\ [][/\ \A value \in Phrases :
                setSearchTerm(value)
                   => /\ timers' \subseteq {value}
                      /\ timers' # {} => searchDebounceTimer' = [set |-> TRUE, value |-> value]
          /\ (submitSearch \/ clearSearch) => timers' = {}
          /\ \A value \in Phrases :
                (debounceFire(value) /\ Len(scans') > Len(scans))
                   => /\ searchTerm = value
                      /\ Trim(value) # <<>>
                      /\ ~isProcessingAllPages]_vars

\* the timer armed for the draft phrase is pending, no scan runs and the
\* document is loaded: its callback will start a scan
C37_Witness ==
    /\ timers = {searchTerm}
    /\ searchDebounceTimer = [set |-> TRUE, value |-> searchTerm]
    /\ Trim(searchTerm) # <<>>
    /\ ~isProcessingAllPages
    /\ fileData
    /\ totalDocumentPages # NULL

\* ------------------------------------------------------------------- C38
\* C38: clearSearch leaves the draft and the committed phrase empty,
\* pageMatches and pageMatchRanges empty, currentMatchIndex null, no debounce
\* timer pending and hasProcessedAllPagesForCurrentSearch false, and leaves
\* the three page text tables, currentPage, the document fields and the
\* running scan as they were
C38_ClearSearchFrame ==
    [][clearSearch
          => /\ searchTerm' = <<>>
             /\ submittedSearchTerm' = <<>>
             /\ pageMatches' = Empty
             /\ pageMatchRanges' = Empty
             /\ TotalOf(pageMatches') = 0
             /\ currentMatchIndex' = NULL
             /\ timers' = {}
             /\ searchDebounceTimer' = NoTimer
             /\ ~hasProcessedAllPagesForCurrentSearch'
             /\ UNCHANGED <<textVars, currentPage, docVars, isProcessingAllPages, scans>>]_vars

\* the search is clear, with the page texts kept, page 2 shown and a scan
\* still running
C38_Witness ==
    /\ searchTerm = <<>>
    /\ submittedSearchTerm = <<>>
    /\ pageMatches = Empty
    /\ currentMatchIndex = NULL
    /\ timers = {}
    /\ ~hasProcessedAllPagesForCurrentSearch
    /\ DOMAIN pageTexts # {}
    /\ currentPage = 2
    /\ isProcessingAllPages
    /\ scans # <<>>

\* ------------------------------------------------------------------- C40
\* C40: for a committed phrase that is not blank, the phrase has at least one
\* term and no term is empty, the pattern matches no empty string at any
\* offset of a stored joined text (so every exec call of the scan loop either
\* fails or moves lastIndex forward), and when no scan runs every stored match
\* span has 0 <= start < end <= the length of the page's joined text
C40_SpansNonEmpty ==
    Trim(submittedSearchTerm) # <<>>
       => LET parts == FilterNonEmpty(SplitWs(Trim(submittedSearchTerm)))
              atoms == Compile(RegexPattern(Trim(submittedSearchTerm)))
          IN  /\ parts # <<>>
              /\ \A k \in 1..Len(parts) : parts[k] # <<>>
              /\ \A p \in DOMAIN pageJoinedTexts :
                    \A i \in 0..Len(pageJoinedTexts[p]) :
                       MatchHere(pageJoinedTexts[p], i, atoms, 1) # i
              /\ ~isProcessingAllPages
                    => \A p \in DOMAIN pageMatchRanges :
                          \A i \in 1..Len(pageMatchRanges[p]) :
                             /\ 0 <= pageMatchRanges[p][i].start
                             /\ pageMatchRanges[p][i].start < pageMatchRanges[p][i].end
                             /\ pageMatchRanges[p][i].end <= Len(pageJoinedTexts[p])

\* the phrase "a" on a page that reads "a": the one span ends where the
\* joined text ends
C40_Witness ==
    /\ ~isProcessingAllPages
    /\ submittedSearchTerm = <<"a">>
    /\ 1 \in DOMAIN pageJoinedTexts
    /\ pageJoinedTexts[1] = <<"a">>
    /\ pageMatchRanges = (1 :> <<[start |-> 0, end |-> 1]>>)


============================================================================
